---------------------------- MODULE Spec2Model ----------------------------
(***************************************************************************)
(* A model of the ticket application: the server handler                   *)
(* TicketsController.index (search-filter parsing and the ticket query)    *)
(* and the client component SecurityDashboard (analytics and rendering).   *)
(*                                                                         *)
(* Strings are sequences of one-character strings.  Instants are records   *)
(* [day, ms]: whole days since 1970-01-01 UTC and milliseconds within that *)
(* UTC day, compared lexicographically.  An optional value is <<>> when it *)
(* is undefined and <<v>> when it holds v.                                 *)
(***************************************************************************)
EXTENDS Integers, Sequences, FiniteSets, TLC

VARIABLES
    db,             \* the tickets table, in insertion order
    tz,             \* local time zone offset of the machine, minutes east of UTC
    now,            \* the clock: Date.now() / new Date()
    search,         \* request.input('search', '') of the requests
    filters,        \* index: the filters object
    page,           \* request.input('page', 1) of the last request
    tickets,        \* index: ids of the page of tickets returned
    served,         \* index has answered at least one request
    dashboardData,  \* the array handed to SecurityDashboard (mutable)
    given,          \* history: dashboardData as index produced it
    mounted,        \* SecurityDashboard is mounted
    analytics,      \* <<>> or <<the memoized analytics value>>
    error,          \* a render of SecurityDashboard threw
    prevReq,        \* history: <<>> or <<the filters of the request before>>
    lastRun,        \* history: <<>> or <<[input, out]>> of the last aggregation
    prevRun,        \* history: lastRun as it was before the last aggregation
    itemsToShow,    \* App: ids of the itemsToShow state
    hiddenItems,    \* App: ids of the hiddenItems state
    lastHide        \* history: <<>> or <<[id, hiddenBefore]>> of the last Hide click

vars == <<db, tz, now, search, page, filters, tickets, served, dashboardData, given,
          mounted, analytics, error, prevReq, lastRun, prevRun,
          itemsToShow, hiddenItems, lastHide>>

None == <<>>
Some(v) == <<v>>

-----------------------------------------------------------------------------
(* Characters and strings                                                  *)

\* JS WhiteSpace and LineTerminator characters of the alphabet: what
\* String.prototype.trim strips and what \s matches.
WhiteSpace == {" ", "\n"}

\* What the regular expression's . does not match.
LineTerminators == {"\n"}

Digits == <<"0", "1", "2", "3", "4", "5", "6", "7", "8", "9">>

IsDigit(c) == c \in { Digits[i] : i \in 1..10 }

DigitVal(c) == (CHOOSE i \in 1..10 : Digits[i] = c) - 1

UpperCase == <<"A", "B", "F", "R", "X">>

LowerCase == <<"a", "b", "f", "r", "x">>

\* String.prototype.toLowerCase, one character.
ToLowerChar(c) ==
    IF \E i \in 1..Len(UpperCase) : UpperCase[i] = c
    THEN LowerCase[CHOOSE i \in 1..Len(UpperCase) : UpperCase[i] = c]
    ELSE c

toLowerCase(s) == [i \in 1..Len(s) |-> ToLowerChar(s[i])]

RECURSIVE TrimStart(_)
TrimStart(s) ==
    IF s # <<>> /\ Head(s) \in WhiteSpace THEN TrimStart(Tail(s)) ELSE s

RECURSIVE TrimEnd(_)
TrimEnd(s) ==
    IF s # <<>> /\ s[Len(s)] \in WhiteSpace
    THEN TrimEnd(SubSeq(s, 1, Len(s) - 1))
    ELSE s

\* String.prototype.trim
trim(s) == TrimEnd(TrimStart(s))

StartsWith(s, p) == Len(s) >= Len(p) /\ SubSeq(s, 1, Len(p)) = p

Drop(s, n) == SubSeq(s, n + 1, Len(s))

\* String.prototype.includes
Includes(s, sub) ==
    \E i \in 0..(Len(s) - Len(sub)) : SubSeq(s, i + 1, i + Len(sub)) = sub

\* Length of the longest prefix of s made of non-whitespace characters (\S*).
RECURSIVE NonSpaceRun(_)
NonSpaceRun(s) ==
    IF s # <<>> /\ Head(s) \notin WhiteSpace THEN 1 + NonSpaceRun(Tail(s)) ELSE 0

-----------------------------------------------------------------------------
(* The filter pattern                                                      *)

Qualifiers ==
    { <<"b","e","f","o","r","e">>, <<"a","f","t","e","r">>,
      <<"r","e","p","o","r","t","e","r">> }

NoMatch == [matched |-> FALSE, filterType |-> <<>>, filterValue |-> <<>>,
            remainingSearch |-> <<>>]

\* The pattern with the token group as (\S*): an empty token matches.
MatchEmptyToken(p) ==
    IF \E q \in Qualifiers : StartsWith(p, q \o <<":">>)
    THEN LET q == CHOOSE x \in Qualifiers : StartsWith(p, x \o <<":">>)
             after == Drop(p, Len(q) + 1)
             n == NonSpaceRun(after)
             rest == Drop(after, n)
         IN  IF \A i \in 1..Len(rest) : rest[i] \notin LineTerminators
             THEN [matched |-> TRUE, filterType |-> q,
                   filterValue |-> SubSeq(after, 1, n), remainingSearch |-> rest]
             ELSE NoMatch
    ELSE NoMatch

\* The pattern with the i flag: the qualifier word matches in any case.
MatchIgnoreCase(p) ==
    IF \E q \in Qualifiers :
          Len(p) >= Len(q) + 1 /\ toLowerCase(SubSeq(p, 1, Len(q))) = q
                               /\ p[Len(q) + 1] = ":"
    THEN LET q == CHOOSE x \in Qualifiers :
                     Len(p) >= Len(x) + 1 /\ toLowerCase(SubSeq(p, 1, Len(x))) = x
                                          /\ p[Len(x) + 1] = ":"
             after == Drop(p, Len(q) + 1)
             n == NonSpaceRun(after)
             rest == Drop(after, n)
         IN  IF n >= 1 /\ \A i \in 1..Len(rest) : rest[i] \notin LineTerminators
             THEN [matched |-> TRUE, filterType |-> q,
                   filterValue |-> SubSeq(after, 1, n), remainingSearch |-> rest]
             ELSE NoMatch
    ELSE NoMatch

\* searchParam.match(/^(before|after|reporter):(\S+)(.*)$/): the qualifier
\* word, a colon, the longest non-empty run of non-whitespace characters,
\* and the rest up to the end of the input, which . matches only when it
\* holds no line terminator (a shorter token leaves the same terminator in
\* the rest, so backtracking finds no other match).
MatchFilterRegex(p) ==
    IF \E q \in Qualifiers : StartsWith(p, q \o <<":">>)
    THEN LET q == CHOOSE x \in Qualifiers : StartsWith(p, x \o <<":">>)
             after == Drop(p, Len(q) + 1)
             n == NonSpaceRun(after)
             rest == Drop(after, n)
         IN  IF n >= 1 /\ \A i \in 1..Len(rest) : rest[i] \notin LineTerminators
             THEN [matched |-> TRUE, filterType |-> q,
                   filterValue |-> SubSeq(after, 1, n), remainingSearch |-> rest]
             ELSE NoMatch
    ELSE NoMatch

-----------------------------------------------------------------------------
(* Instants and the calendar                                               *)

MsPerDay == 86400000

MsPerMinute == 60 * 1000

Instant(d, m) == [day |-> d, ms |-> m]

\* An instant given as a day and a possibly out-of-range millisecond count.
Normalize(d, m) == Instant(d + (m \div MsPerDay), m % MsPerDay)

InstLess(a, b) == a.day < b.day \/ (a.day = b.day /\ a.ms < b.ms)

IsLeapYear(y) == (y % 4 = 0 /\ y % 100 # 0) \/ y % 400 = 0

DaysInMonth(y, m) ==
    IF m = 2 THEN (IF IsLeapYear(y) THEN 29 ELSE 28)
    ELSE IF m \in {4, 6, 9, 11} THEN 30 ELSE 31

\* Days since 1970-01-01 of the civil date y-m-d (proleptic Gregorian).
DaysFromCivil(y, m, d) ==
    LET yy  == IF m <= 2 THEN y - 1 ELSE y
        era == yy \div 400
        yoe == yy - era * 400
        mp  == IF m > 2 THEN m - 3 ELSE m + 9
        doy == (153 * mp + 2) \div 5 + d - 1
        doe == yoe * 365 + yoe \div 4 - yoe \div 100 + doy
    IN  era * 146097 + doe - 719468

\* The civil year and month of a day number.
CivilFromDays(days) ==
    LET z   == days + 719468
        era == z \div 146097
        doe == z - era * 146097
        yoe == (doe - doe \div 1460 + doe \div 36524 - doe \div 146096) \div 365
        doy == doe - (365 * yoe + yoe \div 4 - yoe \div 100)
        mp  == (5 * doy + 2) \div 153
        m   == IF mp < 10 THEN mp + 3 ELSE mp - 9
        y   == yoe + era * 400
    IN  [year |-> IF m <= 2 THEN y + 1 ELSE y, month |-> m]

\* Midnight local time of the civil date, on a machine at offset zone.
LocalMidnight(y, m, d, zone) == Normalize(DaysFromCivil(y, m, d), 0 - zone * MsPerMinute)

\* The value of a string of digits.
RECURSIVE Numeral(_)
Numeral(s) ==
    IF s = <<>> THEN 0
    ELSE 10 * Numeral(SubSeq(s, 1, Len(s) - 1)) + DigitVal(s[Len(s)])

\* Length of the run of digits at the start of s, at most n long: date-fns'
\* numeric token of n pattern letters reads one to n digits.
RECURSIVE DigitRun(_, _)
DigitRun(s, n) ==
    IF n > 0 /\ s # <<>> /\ IsDigit(Head(s)) THEN 1 + DigitRun(Tail(s), n - 1) ELSE 0

\* parse that keeps the reference date's time of day instead of midnight.
ParseKeepsTime(token, zone, ref) ==
    LET a  == DigitRun(token, 2)
        t1 == Drop(token, a)
        b  == DigitRun(Drop(t1, 1), 2)
        t2 == Drop(t1, 1 + b)
        c  == DigitRun(Drop(t2, 1), 4)
        t3 == Drop(t2, 1 + c)
        dd == Numeral(SubSeq(token, 1, a))
        mm == Numeral(SubSeq(t1, 2, 1 + b))
        yy == Numeral(SubSeq(t2, 2, 1 + c))
    IN  IF /\ a >= 1 /\ t1 # <<>> /\ Head(t1) = "/"
           /\ b >= 1 /\ t2 # <<>> /\ Head(t2) = "/"
           /\ c >= 1 /\ t3 = <<>>
           /\ yy > 0 /\ mm \in 1..12 /\ dd >= 1 /\ dd <= DaysInMonth(yy, mm)
        THEN Some(Instant(DaysFromCivil(yy, mm, dd), ref.ms))
        ELSE None

\* parse that accepts any day number from 1 to 31 in every month.
ParseNoDayCheck(token, zone, ref) ==
    LET a  == DigitRun(token, 2)
        t1 == Drop(token, a)
        b  == DigitRun(Drop(t1, 1), 2)
        t2 == Drop(t1, 1 + b)
        c  == DigitRun(Drop(t2, 1), 4)
        t3 == Drop(t2, 1 + c)
        dd == Numeral(SubSeq(token, 1, a))
        mm == Numeral(SubSeq(t1, 2, 1 + b))
        yy == Numeral(SubSeq(t2, 2, 1 + c))
    IN  IF /\ a >= 1 /\ t1 # <<>> /\ Head(t1) = "/"
           /\ b >= 1 /\ t2 # <<>> /\ Head(t2) = "/"
           /\ c >= 1 /\ t3 = <<>>
           /\ yy > 0 /\ mm \in 1..12 /\ dd \in 1..31
        THEN Some(LocalMidnight(yy, mm, dd, zone))
        ELSE None

\* date-fns parse(token, 'dd/MM/yyyy', new Date()): one or two digits, "/",
\* one or two digits, "/", one to four digits, nothing left over; the year
\* positive, the month 1..12, the day within the month.  The result is
\* midnight local time of that date; anything else is Invalid Date (None).
\* The reference date only supplies units the format leaves out, and the
\* time of day is reset, so the result does not depend on it.
DateFnsParse(token, zone, ref) ==
    LET a  == DigitRun(token, 2)
        t1 == Drop(token, a)
        b  == DigitRun(Drop(t1, 1), 2)
        t2 == Drop(t1, 1 + b)
        c  == DigitRun(Drop(t2, 1), 4)
        t3 == Drop(t2, 1 + c)
        dd == Numeral(SubSeq(token, 1, a))
        mm == Numeral(SubSeq(t1, 2, 1 + b))
        yy == Numeral(SubSeq(t2, 2, 1 + c))
    IN  IF /\ a >= 1 /\ t1 # <<>> /\ Head(t1) = "/"
           /\ b >= 1 /\ t2 # <<>> /\ Head(t2) = "/"
           /\ c >= 1 /\ t3 = <<>>
           /\ yy > 0 /\ mm \in 1..12 /\ dd >= 1 /\ dd <= DaysInMonth(yy, mm)
        THEN Some(LocalMidnight(yy, mm, dd, zone))
        ELSE None

\* Date.prototype.setUTCHours(23, 59, 59, 999): the same UTC day, its last
\* millisecond.  On an Invalid Date it changes nothing and does not throw.
SetUTCHoursEndOfDay(date) ==
    IF date = None THEN None
    ELSE Some(Instant(date[1].day, 23 * 3600000 + 59 * 60000 + 59 * 1000 + 999))

-----------------------------------------------------------------------------
(* TicketsController.index: the filters                                    *)

Before == <<"b","e","f","o","r","e">>
After == <<"a","f","t","e","r">>
Reporter == <<"r","e","p","o","r","t","e","r">>

NoFilters == [beforeDate |-> None, afterDate |-> None, reporterEmail |-> None,
              searchValue |-> None]

\* The filters built by independent ifs with no test of the qualifier on the
\* reporter branch: every matched token is also stored as reporterEmail.
BuildFiltersNoElse(raw, zone, ref) ==
    LET searchParam == trim(raw)
        match == MatchFilterRegex(searchParam)
    IN  IF match.matched
        THEN [ beforeDate |->
                 IF match.filterType = Before
                 THEN DateFnsParse(match.filterValue, zone, ref) ELSE None,
               afterDate |->
                 IF match.filterType = After
                 THEN SetUTCHoursEndOfDay(DateFnsParse(match.filterValue, zone, ref))
                 ELSE None,
               reporterEmail |-> Some(toLowerCase(trim(match.filterValue))),
               searchValue |-> Some(toLowerCase(trim(match.remainingSearch))) ]
        ELSE [ NoFilters EXCEPT !.searchValue = Some(toLowerCase(trim(searchParam))) ]

\* The filters object index builds from request.input('search', '').
BuildFilters(raw, zone, ref) ==
    LET searchParam == trim(raw)
        match == MatchFilterRegex(searchParam)
    IN  IF match.matched
        THEN [ beforeDate |->
                 IF match.filterType = Before
                 THEN DateFnsParse(match.filterValue, zone, ref) ELSE None,
               afterDate |->
                 IF match.filterType = After
                 THEN SetUTCHoursEndOfDay(DateFnsParse(match.filterValue, zone, ref))
                 ELSE None,
               reporterEmail |->
                 IF match.filterType = Reporter
                 THEN Some(toLowerCase(trim(match.filterValue))) ELSE None,
               searchValue |-> Some(toLowerCase(trim(match.remainingSearch))) ]
        ELSE [ NoFilters EXCEPT !.searchValue = Some(toLowerCase(trim(searchParam))) ]

-----------------------------------------------------------------------------
(* TicketsController.index: the query                                      *)

PageSize == 20

\* The stable sort of s, where goes[i][j] says that s[i] goes before s[j] (a
\* strict order): Array.prototype.sort with a consistent comparator, and
\* ORDER BY with ties left in table order.
StableSort(s, goes) ==
    LET order[k \in 0..Len(s)] ==
            IF k = 0 THEN <<>>
            ELSE LET done == order[k - 1]
                     stay == Cardinality({ j \in 1..(k - 1) : ~goes[k][done[j]] })
                 IN  SubSeq(done, 1, stay) \o <<k>> \o SubSeq(done, stay + 1, k - 1)
        sorted == order[Len(s)]
    IN  [r \in 1..Len(s) |-> s[sorted[r]]]

\* Array.prototype.slice(0, n)
SliceTo(s, n) == SubSeq(s, 1, IF Len(s) < n THEN Len(s) ELSE n)

Truthy(opt) == opt # None /\ opt[1] # <<>>

\* The where clauses with the reporter matched as a substring (LIKE).
RowMatchesEmailSubstring(f, t) ==
    /\ Truthy(f.searchValue) =>
          \/ Includes(toLowerCase(t.title), toLowerCase(f.searchValue[1]))
          \/ Includes(toLowerCase(t.content), toLowerCase(f.searchValue[1]))
    /\ f.beforeDate # None => InstLess(t.creationTime, f.beforeDate[1])
    /\ f.afterDate # None => InstLess(f.afterDate[1], t.creationTime)
    /\ Truthy(f.reporterEmail) =>
          Includes(toLowerCase(t.userEmail), toLowerCase(f.reporterEmail[1]))

\* The where clauses with creation_time <= beforeDate.
RowMatchesInclusive(f, t) ==
    /\ Truthy(f.searchValue) =>
          \/ Includes(toLowerCase(t.title), toLowerCase(f.searchValue[1]))
          \/ Includes(toLowerCase(t.content), toLowerCase(f.searchValue[1]))
    /\ f.beforeDate # None => ~InstLess(f.beforeDate[1], t.creationTime)
    /\ f.afterDate # None => InstLess(f.afterDate[1], t.creationTime)
    /\ Truthy(f.reporterEmail) =>
          toLowerCase(t.userEmail) = toLowerCase(f.reporterEmail[1])

\* The where clauses index adds for the filters that are set (a truthy
\* searchValue, beforeDate, afterDate, reporterEmail).
RowMatches(f, t) ==
    /\ Truthy(f.searchValue) =>
          \/ Includes(toLowerCase(t.title), toLowerCase(f.searchValue[1]))
          \/ Includes(toLowerCase(t.content), toLowerCase(f.searchValue[1]))
    /\ f.beforeDate # None => InstLess(t.creationTime, f.beforeDate[1])
    /\ f.afterDate # None => InstLess(f.afterDate[1], t.creationTime)
    /\ Truthy(f.reporterEmail) =>
          toLowerCase(t.userEmail) = toLowerCase(f.reporterEmail[1])

\* query.orderBy('creation_time', 'desc').paginate(page, pageSize), as ids.
RunQuery(f, table, pg) ==
    LET keep(t) == RowMatches(f, t)
        kept == SelectSeq(table, keep)
        rows == StableSort(kept, [i \in 1..Len(kept) |-> [j \in 1..Len(kept) |->
                    InstLess(kept[j].creationTime, kept[i].creationTime)]])
        from == (pg - 1) * PageSize + 1
        to   == IF pg * PageSize < Len(rows) THEN pg * PageSize ELSE Len(rows)
    IN  [i \in 1..(IF to >= from THEN to - from + 1 ELSE 0) |-> rows[from + i - 1].id]

\* TicketsController.index for one request carrying the search string: the
\* filters, the page of tickets, and dashboardData = Ticket.all().  The
\* visit replaces the page, so the dashboard of the page before is gone.
Index(p) ==
    /\ page' = p
    /\ filters' = BuildFilters(search, tz, now)
    /\ tickets' = RunQuery(BuildFilters(search, tz, now), db, p)
    /\ served' = TRUE
    /\ prevReq' = IF served THEN Some(filters) ELSE None
    /\ dashboardData' = db
    /\ given' = db
    /\ mounted' = FALSE
    /\ analytics' = None
    /\ error' = FALSE
    /\ itemsToShow' = tickets'
    /\ hiddenItems' = <<>>
    /\ lastHide' = None
    /\ UNCHANGED <<db, tz, now, search, lastRun, prevRun>>

-----------------------------------------------------------------------------
(* The clock                                                               *)

Noon == 12 * 3600 * 1000

\* The instants the clock takes, in order.
Clock == << Instant(19724, 0), Instant(19726, Noon) >>

\* Time passes.
Tick ==
    /\ \E i \in 1..Len(Clock) : InstLess(now, Clock[i]) /\ now' = Clock[i]
    /\ UNCHANGED <<db, tz, search, page, filters, tickets, served, dashboardData, given,
                   mounted, analytics, error, prevReq, lastRun, prevRun,
                   itemsToShow, hiddenItems, lastHide>>

-----------------------------------------------------------------------------
(* Requests: the search strings and the table the handler is run on        *)

TzOffsets == {0 - 300, 0, 120}

MaxPage == 2

Leads == { <<>>, <<" ">> }

Words == { <<>>, <<"b","e","f","o","r","e">>, <<"a","f","t","e","r">>, <<"r","e","p","o","r","t","e","r">>, <<"l","a","b","e","l">>, <<"B","e","f","o","r","e">> }

Colons == { <<>>, <<":">> }

Tokens == { <<>>, <<"0","1","/","0","1","/","2","0","2","4">>, <<"3","1","/","1","2","/","2","0","2","3">>, <<"1","/","1","/","2","0","2","4">>, <<"3","1","/","0","2","/","2","0","2","4">>, <<"n","o","p","e">>, <<"A","@","x",".","i","o">> }

Rests == { <<>>, <<" ">>, <<" ","F","o","o">>, <<" ","f","o","o","\n","b","a","r">>, <<" "," ","x"," ">> }

Searches == { l \o w \o c \o t \o r :
                l \in Leads, w \in Words, c \in Colons, t \in Tokens, r \in Rests }

Ticket(i, title, content, at, email, labels) ==
    [id |-> i, title |-> title, content |-> content, creationTime |-> at,
     userEmail |-> email, labels |-> labels]

\* 31/12/2023 and 01/01/2024 as day numbers, and the rows around them.
SeedTickets ==
    << Ticket(1, <<"F","o","o">>, <<"b","a","r">>, Instant(19721, Noon), <<"a","@","x",".","i","o">>, Some(<<>>)),
       Ticket(2, <<"b","a","r">>, <<"F","o","o">>, Instant(19722, 0), <<"A","@","x",".","i","o">>, Some(<<>>)),
       Ticket(3, <<"F","o","o">>, <<"F","o","o">>, Instant(19722, MsPerDay - 1), <<"a","a","@","x",".","i","o">>, None),
       Ticket(4, <<"b","a","r">>, <<"b","a","r">>, Instant(19723, 0), <<"a","@","x",".","i","o">>, Some(<<>>)),
       Ticket(5, <<"F","o","o">>, <<"b","a","r">>, Instant(19723, Noon), <<"b","@","x",".","i","o">>, Some(<<>>)),
       Ticket(6, <<"b","a","r">>, <<"b","a","r">>, Instant(19723, MsPerDay - 1), <<"a","@","x",".","i","o">>, None),
       Ticket(7, <<"F","o","o">>, <<"F","o","o">>, Instant(19724, 0), <<"b","@","x",".","i","o">>, Some(<<>>)) >>

Unserved ==
    /\ now = Clock[1]
    /\ page = 1
    /\ filters = NoFilters
    /\ tickets = <<>>
    /\ served = FALSE
    /\ dashboardData = <<>>
    /\ given = <<>>
    /\ mounted = FALSE
    /\ analytics = None
    /\ error = FALSE
    /\ prevReq = None
    /\ lastRun = None
    /\ prevRun = None
    /\ itemsToShow = <<>>
    /\ hiddenItems = <<>>
    /\ lastHide = None

Init ==
    /\ db = SeedTickets
    /\ tz \in TzOffsets
    /\ search \in Searches
    /\ Unserved

Next ==
    \/ \E p \in 1..MaxPage : Index(p)
    \/ Tick

Spec == Init /\ [][Next]_vars

-----------------------------------------------------------------------------
(* SecurityDashboard: objects used as counters                             *)

\* A Record<string, number> is the sequence of its own properties
\* [key, value] in the order they were created.  Keys that name a member of
\* Object.prototype are outside the alphabet of the model.

\* A canonical array index: decimal digits without a leading zero, at most
\* 2^32 - 2.
MaxIndexText == <<"4","2","9","4","9","6","7","2","9","4">>

RECURSIVE DigitsLess(_, _)
DigitsLess(a, b) ==
    IF Len(a) # Len(b) THEN Len(a) < Len(b)
    ELSE IF a = <<>> THEN FALSE
    ELSE IF Head(a) # Head(b) THEN DigitVal(Head(a)) < DigitVal(Head(b))
    ELSE DigitsLess(Tail(a), Tail(b))

IsArrayIndex(key) ==
    /\ key # <<>>
    /\ \A i \in 1..Len(key) : IsDigit(key[i])
    /\ (Len(key) = 1 \/ Head(key) # "0")
    /\ ~DigitsLess(MaxIndexText, key)

HasKey(obj, key) == \E i \in 1..Len(obj) : obj[i].key = key

\* obj[key] = (obj[key] || 0) + 1
Increment(obj, key) ==
    IF HasKey(obj, key)
    THEN LET i == CHOOSE j \in 1..Len(obj) : obj[j].key = key
         IN  [obj EXCEPT ![i].value = @ + 1]
    ELSE Append(obj, [key |-> key, value |-> 1])

\* Object.entries / Object.keys order: the array-index keys first, in
\* ascending numeric order, then the other keys in creation order.
ObjectEntries(obj) ==
    LET isIndex(e) == IsArrayIndex(e.key)
        isOther(e) == ~IsArrayIndex(e.key)
        ints == SelectSeq(obj, isIndex)
    IN  StableSort(ints, [i \in 1..Len(ints) |-> [j \in 1..Len(ints) |->
                DigitsLess(ints[i].key, ints[j].key)]])
            \o SelectSeq(obj, isOther)

RECURSIVE IncrementAll(_, _)
IncrementAll(obj, keys) ==
    IF keys = <<>> THEN obj
    ELSE IncrementAll(Increment(obj, Head(keys)), Tail(keys))

-----------------------------------------------------------------------------
(* SecurityDashboard: the analytics                                        *)

TopN == 10

RecentN == 5

NoneLabel == <<"N","o","n","e">>

\* labelCounts after the first forEach: a ticket without labels adds nothing.
RECURSIVE LabelCounts(_, _)
LabelCounts(obj, list) ==
    IF list = <<>> THEN obj
    ELSE LabelCounts(
            IF Head(list).labels = None THEN obj
            ELSE IncrementAll(obj, Head(list).labels[1]),
            Tail(list))

\* .sort((a, b) => b.value - a.value)
ByValueDescending(entries) ==
    StableSort(entries, [i \in 1..Len(entries) |-> [j \in 1..Len(entries) |->
        entries[i].value > entries[j].value]])

\* String(n) for n >= 0
RECURSIVE NumberText(_)
NumberText(n) ==
    IF n < 10 THEN <<Digits[n + 1]>>
    ELSE NumberText(n \div 10) \o <<Digits[(n % 10) + 1]>>

\* String.prototype.padStart(2, '0')
PadStart2(text) == IF Len(text) < 2 THEN <<"0">> \o text ELSE text

\* The local calendar year and month of an instant.
LocalYearMonth(at, zone) == CivilFromDays(Normalize(at.day, at.ms + zone * MsPerMinute).day)

\* `${date.getFullYear()}-${String(date.getMonth() + 1).padStart(2, '0')}`
MonthKey(at, zone) ==
    NumberText(LocalYearMonth(at, zone).year) \o <<"-">>
        \o PadStart2(NumberText(LocalYearMonth(at, zone).month))

RECURSIVE TimelineData(_, _, _)
TimelineData(obj, list, zone) ==
    IF list = <<>> THEN obj
    ELSE TimelineData(Increment(obj, MonthKey(Head(list).creationTime, zone)),
                      Tail(list), zone)

\* The order of the characters of a month key.
KeyChars == <<"-">> \o Digits

CharRank(c) == CHOOSE i \in 1..Len(KeyChars) : KeyChars[i] = c

\* a.localeCompare(b) < 0 on month keys
RECURSIVE KeyLess(_, _)
KeyLess(a, b) ==
    IF b = <<>> THEN FALSE
    ELSE IF a = <<>> THEN TRUE
    ELSE IF Head(a) # Head(b) THEN CharRank(Head(a)) < CharRank(Head(b))
    ELSE KeyLess(Tail(a), Tail(b))

\* .sort((a, b) => a.month.localeCompare(b.month))
ByMonth(entries) ==
    StableSort(entries, [i \in 1..Len(entries) |-> [j \in 1..Len(entries) |->
        KeyLess(entries[i].key, entries[j].key)]])

RECURSIVE ReporterCounts(_, _)
ReporterCounts(obj, list) ==
    IF list = <<>> THEN obj
    ELSE ReporterCounts(Increment(obj, Head(list).userEmail), Tail(list))

\* The slice taken before the sort.
SliceThenSort(entries) == ByValueDescending(SliceTo(entries, TopN))

\* .sort((a, b) => b.count - a.count).slice(0, 10)
TopReporters(entries) == SliceTo(ByValueDescending(entries), TopN)

\* Object.keys(reporterCounts).length
UniqueReporters(obj) == Len(ObjectEntries(obj))

\* labelData[0]?.name with no fallback: undefined (the empty text here).
MostCommonLabelNoFallback(labelData) ==
    IF labelData = <<>> THEN <<>> ELSE labelData[1].key

\* labelData[0]?.name || 'None'
MostCommonLabel(labelData) ==
    IF labelData = <<>> \/ labelData[1].key = <<>> THEN NoneLabel
    ELSE labelData[1].key

\* Math.min(...tickets.map(t => t.creationTime)): None stands for Infinity,
\* the minimum of no numbers.
RECURSIVE MinCreation(_)
MinCreation(list) ==
    IF list = <<>> THEN None
    ELSE LET rest == MinCreation(Tail(list))
         IN  IF rest = None \/ InstLess(Head(list).creationTime, rest[1])
             THEN Some(Head(list).creationTime) ELSE rest

RECURSIVE GCD(_, _)
GCD(a, b) == IF b = 0 THEN a ELSE GCD(b, a % b)

\* Math.round(avgTicketsPerDay * 10) / 10, given in tenths, where
\* avgTicketsPerDay = total / Math.max(1, (Date.now() - earliest) / MsPerDay).
\* With no ticket the elapsed time is -Infinity and the divisor 1.  The
\* quotient is exact here; the code's is a double.
AvgTicketsPerDay(total, earliest, clock) ==
    IF earliest = None THEN 10 * total
    ELSE LET elapsed == (clock.day - earliest[1].day) * MsPerDay
                            + clock.ms - earliest[1].ms
             g == GCD(MsPerDay, elapsed)
             num == 10 * total * (MsPerDay \div g)
             den == elapsed \div g
         IN  IF elapsed <= MsPerDay THEN 10 * total
             ELSE (2 * num + den) \div (2 * den)

\* The useMemo callback: the analytics of the list, on a machine at offset
\* zone, when the clock shows clock.
Aggregate(list, zone, clock) ==
    LET labelData == ByValueDescending(ObjectEntries(LabelCounts(<<>>, list)))
        reporterCounts == ReporterCounts(<<>>, list)
    IN  [ labelData |-> labelData,
          timeline |-> ByMonth(ObjectEntries(TimelineData(<<>>, list, zone))),
          topReporters |-> TopReporters(ObjectEntries(reporterCounts)),
          stats |-> [ totalTickets |-> Len(list),
                      uniqueReporters |-> UniqueReporters(reporterCounts),
                      mostCommonLabel |-> MostCommonLabel(labelData),
                      avgTicketsPerDay |->
                          AvgTicketsPerDay(Len(list), MinCreation(list), clock) ] ]

-----------------------------------------------------------------------------
(* SecurityDashboard: rendering                                            *)

\* tickets.sort((a, b) => b.creationTime - a.creationTime): the array the
\* component was given, sorted in place, newest first.
SortInPlace(list) ==
    StableSort(list, [i \in 1..Len(list) |-> [j \in 1..Len(list) |->
        InstLess(list[j].creationTime, list[i].creationTime)]])

\* Recent Issues reads ticket.labels.slice and ticket.labels.length of each
\* of the first five tickets: a TypeError when one of them has no labels.
RecentIssuesThrows(sorted) ==
    \E i \in 1..Len(SliceTo(sorted, RecentN)) : sorted[i].labels = None

\* The component function runs: useMemo recomputes the analytics when none
\* is cached for this array (first render after a mount or a visit), then
\* the JSX sorts the array and reads the labels of the recent tickets.  A
\* throw unmounts the tree.
Render ==
    /\ served
    /\ ~error
    /\ LET fresh == analytics = None
           value == IF fresh THEN Aggregate(dashboardData, tz, now) ELSE analytics[1]
           sorted == SortInPlace(dashboardData)
       IN  /\ dashboardData' = sorted
           /\ IF fresh
              THEN /\ lastRun' = Some([input |-> dashboardData, out |-> value])
                   /\ prevRun' = lastRun
              ELSE UNCHANGED <<lastRun, prevRun>>
           /\ IF RecentIssuesThrows(sorted)
              THEN /\ error' = TRUE
                   /\ mounted' = FALSE
                   /\ analytics' = None
              ELSE /\ error' = FALSE
                   /\ mounted' = TRUE
                   /\ analytics' = Some(value)
    /\ UNCHANGED <<db, tz, now, search, page, filters, tickets, served, given, prevReq,
                   itemsToShow, hiddenItems, lastHide>>

\* "Hide dashboard": the component is unmounted and its memo discarded; the
\* next Render is the mount after "Show dashboard".
HideDashboard ==
    /\ mounted
    /\ mounted' = FALSE
    /\ analytics' = None
    /\ UNCHANGED <<db, tz, now, search, page, filters, tickets, served,
                   dashboardData, given, error, prevReq, lastRun, prevRun,
                   itemsToShow, hiddenItems, lastHide>>

-----------------------------------------------------------------------------
(* The dashboard's inputs                                                  *)

MaxTickets == 3

Hour == 3600 * 1000

\* The tickets a table is made of: reporter, creation time, labels (None
\* when the ticket has no labels field).
Kinds ==
    { [userEmail |-> <<"a","@","x",".","i","o">>, creationTime |-> Instant(19722, 23 * Hour),
       labels |-> Some(<< <<"x","s","s">> >>)],
      [userEmail |-> <<"b","@","x",".","i","o">>, creationTime |-> Instant(19723, Noon),
       labels |-> Some(<< <<"x","s","s">>, <<"s","q","l","i">> >>)],
      [userEmail |-> <<"a","@","x",".","i","o">>, creationTime |-> Instant(19723, Noon),
       labels |-> Some(<< <<"1","0">>, <<"2">> >>)],
      [userEmail |-> <<"B","@","x",".","i","o">>, creationTime |-> Instant(19721, 0),
       labels |-> None],
      [userEmail |-> <<"b","@","x",".","i","o">>, creationTime |-> Instant(19722, 23 * Hour),
       labels |-> Some(<<>>)] }

Rows(kinds) ==
    [i \in 1..Len(kinds) |->
        Ticket(i, <<"F","o","o">>, <<"b","a","r">>, kinds[i].creationTime, kinds[i].userEmail,
               kinds[i].labels)]

Tables == UNION { { Rows(k) : k \in [1..n -> Kinds] } : n \in 0..MaxTickets }

DashZones == {0, 120}

DashSearches == { <<"b","e","f","o","r","e",":","0","1","/","0","1","/","2","0","2","4"," ","F","o","o">> }

InitDash ==
    /\ db \in Tables
    /\ tz \in DashZones
    /\ search \in DashSearches
    /\ Unserved

NextDash ==
    \/ Index(1)
    \/ Render
    \/ HideDashboard
    \/ Tick

SpecDash == InitDash /\ [][NextDash]_vars

-----------------------------------------------------------------------------
(* The leaderboard's inputs                                                *)

MaxExtra == 1

MaxRepeats == 1

ReporterEmail(i) == <<"r">> \o NumberText(i) \o <<"@","x">>

\* The filings of a given length, each with the number of reporters seen.
\* The next ticket comes from a reporter seen before, while repeats are
\* left, or from the next new one, while new ones are left.  (New reporters
\* appear in the order of their numbers; the names are interchangeable.)
MayFollow(f) ==
    (IF Len(f.list) - f.seen < MaxRepeats
        THEN { [list |-> Append(f.list, e), seen |-> f.seen] : e \in 1..f.seen }
        ELSE {})
    \cup (IF f.seen < TopN + MaxExtra
            THEN { [list |-> Append(f.list, f.seen + 1), seen |-> f.seen + 1] }
            ELSE {})

RECURSIVE Extend(_, _)
Extend(fs, n) ==
    IF n = 0 \/ fs = {} THEN fs
    ELSE fs \cup Extend(UNION { MayFollow(f) : f \in fs }, n - 1)

Filings ==
    { f.list : f \in Extend({ [list |-> <<>>, seen |-> 0] },
                            TopN + MaxExtra + MaxRepeats) }

ReporterTables ==
    { [i \in 1..Len(s) |->
          Ticket(i, <<"F">>, <<"b">>, Instant(19723, Noon),
                 ReporterEmail(s[i]), Some(<<>>))] : s \in Filings }

\* The page as index delivered it, before the dashboard's first render.
InitReporters ==
    /\ db \in ReporterTables
    /\ tz = 0
    /\ search = <<>>
    /\ now = Clock[1]
    /\ page = 1
    /\ filters = BuildFilters(search, tz, now)
    /\ tickets = RunQuery(filters, db, page)
    /\ served = TRUE
    /\ dashboardData = db
    /\ given = db
    /\ mounted = FALSE
    /\ analytics = None
    /\ error = FALSE
    /\ prevReq = None
    /\ lastRun = None
    /\ prevRun = None
    /\ itemsToShow = tickets
    /\ hiddenItems = <<>>
    /\ lastHide = None

NextReporters == Render

SpecReporters == InitReporters /\ [][NextReporters]_vars

-----------------------------------------------------------------------------
(* App: the ticket list                                                    *)

\* The search box: useState(''), and nothing is typed.
SearchBox == <<>>

TicketOf(i) == db[CHOOSE k \in 1..Len(db) : db[k].id = i]

InList(i, ids) == \E k \in 1..Len(ids) : ids[k] = i

\* ticketData: the tickets of the page (props) that hold the text of the
\* search box and are not among the hidden ones, as ids.
TicketData ==
    LET shown(i) ==
            /\ Includes(toLowerCase(TicketOf(i).title) \o toLowerCase(TicketOf(i).content),
                        toLowerCase(SearchBox))
            /\ ~InList(i, hiddenItems)
    IN  SelectSeq(tickets, shown)

\* tickets.meta.total: the rows the query matches, on all pages.
MetaTotal ==
    Cardinality({ k \in 1..Len(db) : RowMatches(filters, db[k]) })

\* Math.ceil(tickets.meta.total / tickets.meta.perPage)
LastPage == (MetaTotal + PageSize - 1) \div PageSize

MaxHidden == 2

\* A click on Hide of a displayed ticket: handleHideItem(id).  Nothing is
\* done when the ticket is not found in itemsToShow.
handleHideItem(id) ==
    /\ served
    /\ ~error
    /\ InList(id, TicketData)
    /\ Len(hiddenItems) < MaxHidden
    /\ lastHide' = Some([id |-> id, hiddenBefore |-> Len(hiddenItems)])
    /\ IF InList(id, itemsToShow)
       THEN LET others(i) == i # id
            IN  /\ hiddenItems' = Append(hiddenItems, id)
                /\ itemsToShow' = SelectSeq(itemsToShow, others)
       ELSE UNCHANGED <<hiddenItems, itemsToShow>>
    /\ UNCHANGED <<db, tz, now, search, page, filters, tickets, served, dashboardData,
                   given, mounted, analytics, error, prevReq, lastRun, prevRun>>

\* A click on Restore, shown while something is hidden.
handleRestoreItems ==
    /\ served
    /\ ~error
    /\ hiddenItems # <<>>
    /\ hiddenItems' = <<>>
    /\ itemsToShow' = tickets
    /\ lastHide' = None
    /\ UNCHANGED <<db, tz, now, search, page, filters, tickets, served, dashboardData,
                   given, mounted, analytics, error, prevReq, lastRun, prevRun>>

\* A click in Pagination, shown while a ticket is displayed:
\* handlePageChange(p) visits the page with preserveState, so index answers
\* with new props and the state of App stays as it is.
handlePageChange(p) ==
    /\ served
    /\ ~error
    /\ TicketData # <<>>
    /\ p \in 1..LastPage
    /\ page' = p
    /\ filters' = BuildFilters(search, tz, now)
    /\ tickets' = RunQuery(BuildFilters(search, tz, now), db, p)
    /\ prevReq' = Some(filters)
    /\ dashboardData' = db
    /\ given' = db
    /\ analytics' = None
    /\ lastHide' = None
    /\ UNCHANGED <<db, tz, now, search, served, mounted, error, lastRun, prevRun,
                   itemsToShow, hiddenItems>>

-----------------------------------------------------------------------------
(* The list's inputs                                                       *)

MaxOver == 1

\* A table of one page and MaxOver rows more, the newest row last.
ListTickets ==
    [i \in 1..(PageSize + MaxOver) |->
        Ticket(i, <<"F">>, <<"b">>, Instant(19700 + i, 0), <<"a","@","x">>, Some(<<>>))]

\* The first page as index delivered it and App mounted on it.
InitList ==
    /\ db = ListTickets
    /\ tz = 0
    /\ search = SearchBox
    /\ now = Clock[1]
    /\ page = 1
    /\ filters = BuildFilters(search, tz, now)
    /\ tickets = RunQuery(filters, db, page)
    /\ served = TRUE
    /\ dashboardData = db
    /\ given = db
    /\ mounted = FALSE
    /\ analytics = None
    /\ error = FALSE
    /\ prevReq = None
    /\ lastRun = None
    /\ prevRun = None
    /\ itemsToShow = tickets
    /\ hiddenItems = <<>>
    /\ lastHide = None

NextList ==
    \/ \E id \in 1..Len(db) : handleHideItem(id)
    \/ handleRestoreItems
    \/ \E p \in 1..(Len(db) \div PageSize + 1) : handlePageChange(p)

SpecList == InitList /\ [][NextList]_vars

-----------------------------------------------------------------------------
(* Properties of the filters                                               *)

StartsWithQualifier(s) == \E q \in Qualifiers : StartsWith(s, q \o <<":">>)

QualifierOf(s) == CHOOSE q \in Qualifiers : StartsWith(s, q \o <<":">>)

\* What follows the qualifier word and the colon.
AfterColon(s) == Drop(s, Len(QualifierOf(s)) + 1)

\* The token of a qualified input, and what follows the token.
TokenOf(s) == SubSeq(AfterColon(s), 1, NonSpaceRun(AfterColon(s)))
RestOf(s) == Drop(AfterColon(s), NonSpaceRun(AfterColon(s)))

SingleLine(s) == \A i \in 1..Len(s) : s[i] \notin LineTerminators

PlainFilters(text) == [NoFilters EXCEPT !.searchValue = Some(text)]

TwoDigits(n) == << Digits[(n \div 10) + 1], Digits[(n % 10) + 1] >>

FourDigits(n) == TwoDigits(n \div 100) \o TwoDigits(n % 100)

\* The ways a day or month number is written: padded to two digits or not.
Written(n) == {TwoDigits(n)} \cup (IF n < 10 THEN {<<Digits[n + 1]>>} ELSE {})

\* The calendar dates of the two years the requests name, as written
\* day/month/year, with the day number of each.
DatesWritten ==
    UNION { IF dd <= DaysInMonth(y, mm)
            THEN { [text |-> d \o <<"/">> \o m \o <<"/">> \o FourDigits(y),
                    day |-> DaysFromCivil(y, mm, dd)] :
                      d \in Written(dd), m \in Written(mm) }
            ELSE {} :
            y \in 2023..2024, mm \in 1..12, dd \in 1..31 }

IsDate(token) == \E e \in DatesWritten : e.text = token

DayOf(token) == (CHOOSE e \in DatesWritten : e.text = token).day

EndOfDay(d) == Instant(d, MsPerDay - 1)

Row(i) == CHOOSE t \in { db[k] : k \in 1..Len(db) } : t.id = i

Returned == { Row(tickets[k]) : k \in 1..Len(tickets) }

\* The rows whose title or content holds the text, whatever their date.
RowsWithText(text) ==
    { db[k] : k \in { j \in 1..Len(db) :
        \/ text = <<>>
        \/ Includes(toLowerCase(db[j].title), text)
        \/ Includes(toLowerCase(db[j].content), text) } }

\* C1 as stated (refuted): every search string that does not start with
\* before:, after: or reporter: yields searchValue = trim(lower(s)) and no
\* qualifier field.  A string with leading white space that holds a
\* qualifier after it does not start with one, and index trims it first.
C1_AsStated ==
    (served /\ ~StartsWithQualifier(search))
        => filters = PlainFilters(trim(toLowerCase(search)))

\* C1 (amended): every search string whose trimmed form does not start with
\* before:, after: or reporter: yields searchValue = trim(lower(s)) with
\* beforeDate, afterDate and reporterEmail unset; an unknown qualifier word
\* such as label: and a capitalised Before: stay in searchValue.
C1_PlainText ==
    (served /\ ~StartsWithQualifier(trim(search)))
        => filters = PlainFilters(trim(toLowerCase(search)))

C1_Witness ==
    /\ served
    /\ search = <<"l","a","b","e","l",":","n","o","p","e"," ","F","o","o">>
    /\ filters.searchValue = Some(<<"l","a","b","e","l",":","n","o","p","e"," ","f","o","o">>)

\* C2 as stated (refuted by the code): for after:<valid date D>, afterDate
\* is 23:59:59.999 UTC of day D in every time zone, searchValue is the
\* trimmed lowercase remainder, and no returned ticket was created on or
\* before the end of day D.
C2_AfterEndOfDay ==
    LET p == trim(search)
    IN  (/\ served
         /\ StartsWith(p, After \o <<":">>)
         /\ IsDate(TokenOf(p))
         /\ SingleLine(RestOf(p)))
        => /\ filters.afterDate = Some(EndOfDay(DayOf(TokenOf(p))))
           /\ filters.searchValue = Some(toLowerCase(trim(RestOf(p))))
           /\ \A t \in Returned :
                 InstLess(EndOfDay(DayOf(TokenOf(p))), t.creationTime)

\* C3 as stated (refuted): for a qualifier with an empty token the field is
\* unset and searchValue is the trimmed lowercase text after the colon,
\* without the qualifier word.
C3_AsStated ==
    LET p == trim(search)
    IN  (served /\ StartsWithQualifier(p) /\ TokenOf(p) = <<>>)
        => filters = PlainFilters(toLowerCase(trim(AfterColon(p))))

\* C3 (amended): for a qualifier with an empty token (before:, after: or
\* reporter: followed by nothing or by white space) the pattern does not
\* match: the three qualifier fields are unset and searchValue is the
\* trimmed lowercase whole input, the qualifier word and colon included.
C3_EmptyTokenIsPlainText ==
    LET p == trim(search)
    IN  (served /\ StartsWithQualifier(p) /\ TokenOf(p) = <<>>)
        => /\ filters = PlainFilters(toLowerCase(p))
           /\ StartsWith(filters.searchValue[1], QualifierOf(p) \o <<":">>)

C3_Witness ==
    /\ served
    /\ search = <<"b","e","f","o","r","e",":"," ","F","o","o">>
    /\ filters.searchValue = Some(<<"b","e","f","o","r","e",":"," ","f","o","o">>)

\* C4 as stated (refuted): for before:<token> or after:<token> with a token
\* that is no date, both date fields are unset, the query has no date
\* predicate, and searchValue is the trimmed lowercase remainder after the
\* token.  With a line break in the remainder the pattern does not match.
C4_AsStated ==
    LET p == trim(search)
    IN  (/\ served
         /\ (StartsWith(p, Before \o <<":">>) \/ StartsWith(p, After \o <<":">>))
         /\ TokenOf(p) # <<>>
         /\ ~IsDate(TokenOf(p)))
        => /\ filters.beforeDate = None
           /\ filters.afterDate = None
           /\ filters.searchValue = Some(toLowerCase(trim(RestOf(p))))

\* C4 (amended): for a single-line before:<token> or after:<token> query
\* whose token is no date, beforeDate and afterDate are unset, searchValue
\* is the trimmed lowercase remainder after the token, and the first page
\* holds every row with that text whatever its creation time.
C4_MalformedDateDropped ==
    LET p == trim(search)
    IN  (/\ served
         /\ (StartsWith(p, Before \o <<":">>) \/ StartsWith(p, After \o <<":">>))
         /\ TokenOf(p) # <<>>
         /\ ~IsDate(TokenOf(p))
         /\ SingleLine(RestOf(p)))
        => /\ filters.beforeDate = None
           /\ filters.afterDate = None
           /\ filters.reporterEmail = None
           /\ filters.searchValue = Some(toLowerCase(trim(RestOf(p))))
           /\ (page = 1 => Returned = RowsWithText(filters.searchValue[1]))

C4_Witness ==
    /\ served
    /\ page = 1
    /\ search = <<"a","f","t","e","r",":","3","1","/","0","2","/","2","0","2","4"," ","F","o","o">>
    /\ filters.afterDate = None
    /\ filters.searchValue = Some(<<"f","o","o">>)
    /\ Cardinality(Returned) = 5

\* The rows a reporter wrote, whatever the case of the letters.
RowsBy(email) ==
    { db[k] : k \in { j \in 1..Len(db) :
        toLowerCase(db[j].userEmail) = toLowerCase(email) } }

\* C11 as stated (refuted): for every reporter:<email> query reporterEmail
\* is the token lowercased, searchValue is the trimmed lowercase remainder,
\* and every returned ticket has that email as a whole, ignoring case.
\* With a line break in the remainder the pattern does not match.
C11_AsStated ==
    LET p == trim(search)
    IN  (/\ served
         /\ StartsWith(p, Reporter \o <<":">>)
         /\ TokenOf(p) # <<>>)
        => /\ filters.reporterEmail = Some(toLowerCase(TokenOf(p)))
           /\ filters.searchValue = Some(toLowerCase(trim(RestOf(p))))
           /\ Returned \subseteq RowsBy(TokenOf(p))

\* C11 (amended): for a single-line reporter:<email> query reporterEmail is
\* the token lowercased, the date fields are unset, searchValue is the
\* trimmed lowercase remainder, every returned ticket has that email as a
\* whole ignoring case, and the first page holds every such row with the
\* text; a row whose email only contains the token is not returned.
C11_ReporterExact ==
    LET p == trim(search)
    IN  (/\ served
         /\ StartsWith(p, Reporter \o <<":">>)
         /\ TokenOf(p) # <<>>
         /\ SingleLine(RestOf(p)))
        => /\ filters.reporterEmail = Some(toLowerCase(TokenOf(p)))
           /\ filters.beforeDate = None
           /\ filters.afterDate = None
           /\ filters.searchValue = Some(toLowerCase(trim(RestOf(p))))
           /\ Returned \subseteq RowsBy(TokenOf(p))
           /\ (page = 1 =>
                 Returned = RowsBy(TokenOf(p)) \cap RowsWithText(filters.searchValue[1]))

\* reporter:A@x.io Foo returns the rows of a@x.io and A@x.io that hold foo,
\* and not the row of aa@x.io.
C11_Witness ==
    /\ served
    /\ page = 1
    /\ search = <<"r","e","p","o","r","t","e","r",":","A","@","x",".","i","o"," ","F","o","o">>
    /\ filters.reporterEmail = Some(<<"a","@","x",".","i","o">>)
    /\ filters.searchValue = Some(<<"f","o","o">>)
    /\ tickets = <<2, 1>>
    /\ Row(3) \notin Returned

\* Midnight of a day number on the clock of the machine, as an instant.
StartOfDay(d) == Normalize(d, 0 - tz * MsPerMinute)

RowsBefore(at) == { db[k] : k \in { j \in 1..Len(db) : InstLess(db[j].creationTime, at) } }

\* C12 as stated (refuted): for every before:<date D> query beforeDate is
\* the start of day D, searchValue is the trimmed lowercase remainder, and
\* every returned ticket was created strictly before beforeDate.  With a
\* line break in the remainder the pattern does not match.
C12_AsStated ==
    LET p == trim(search)
    IN  (/\ served
         /\ StartsWith(p, Before \o <<":">>)
         /\ IsDate(TokenOf(p)))
        => /\ filters.beforeDate = Some(StartOfDay(DayOf(TokenOf(p))))
           /\ filters.searchValue = Some(toLowerCase(trim(RestOf(p))))
           /\ Returned \subseteq RowsBefore(StartOfDay(DayOf(TokenOf(p))))

\* C12 (amended): for a single-line before:<date D> query beforeDate is
\* midnight of day D on the clock of the server, the other qualifier fields
\* are unset, searchValue is the trimmed lowercase remainder, every returned
\* ticket was created strictly before beforeDate, and the first page holds
\* every such row with the text; a row created at beforeDate is left out.
C12_BeforeStartOfDay ==
    LET p == trim(search)
    IN  (/\ served
         /\ StartsWith(p, Before \o <<":">>)
         /\ IsDate(TokenOf(p))
         /\ SingleLine(RestOf(p)))
        => /\ filters.beforeDate = Some(StartOfDay(DayOf(TokenOf(p))))
           /\ filters.afterDate = None
           /\ filters.reporterEmail = None
           /\ filters.searchValue = Some(toLowerCase(trim(RestOf(p))))
           /\ Returned \subseteq RowsBefore(StartOfDay(DayOf(TokenOf(p))))
           /\ (page = 1 =>
                 Returned = RowsBefore(StartOfDay(DayOf(TokenOf(p))))
                                \cap RowsWithText(filters.searchValue[1]))

\* before:01/01/2024 on a server in UTC: the row created in the last
\* millisecond of 31/12/2023 is returned, the row created at midnight not.
C12_Witness ==
    /\ served
    /\ page = 1
    /\ tz = 0
    /\ search = <<"b","e","f","o","r","e",":","0","1","/","0","1","/","2","0","2","4">>
    /\ filters.beforeDate = Some(Instant(19723, 0))
    /\ tickets = <<3, 2, 1>>
    /\ Row(4).creationTime = Instant(19723, 0)

\* The qualifier fields that are set.
QualifiersSet(f) ==
    { n \in {"beforeDate", "afterDate", "reporterEmail"} : f[n] # None }

\* C13: for every search string at most one of beforeDate, afterDate and
\* reporterEmail is set in the filters index builds.
C13_AtMostOneQualifier ==
    served => Cardinality(QualifiersSet(filters)) <= 1

\* A qualifier field set together with a searchValue.
C13_Witness ==
    /\ served
    /\ QualifiersSet(filters) = {"afterDate"}
    /\ filters.searchValue = Some(<<"x">>)

-----------------------------------------------------------------------------
(* Properties of the dashboard                                             *)

\* The analytics with the average left out of the comparison.
WithoutAverage(out) == [out EXCEPT !.stats.avgTicketsPerDay = 0]

\* The last two runs of the useMemo callback were given equal arrays.
SameInputTwice ==
    /\ prevRun # None
    /\ lastRun # None
    /\ prevRun[1].input = lastRun[1].input

\* C5 as stated: two computations of the analytics over the same ticket list
\* give the same value in every field, avgTicketsPerDay included, and two
\* requests with the same search string build the same filters.
C5_AsStated ==
    /\ SameInputTwice => prevRun[1].out = lastRun[1].out
    /\ prevReq # None => prevReq[1] = filters

\* C5, amended: two computations of the analytics over the same ticket list
\* agree in every field except avgTicketsPerDay, which is taken from the
\* clock; two requests with the same search string build the same filters,
\* parsed dates included, whenever they run.
C5_SameButAverage ==
    /\ SameInputTwice => WithoutAverage(prevRun[1].out) = WithoutAverage(lastRun[1].out)
    /\ prevReq # None => prevReq[1] = filters

\* The same non-empty list aggregated at two times with two averages, and
\* the same date query parsed at two times.
C5_Witness ==
    /\ SameInputTwice
    /\ lastRun[1].input # <<>>
    /\ prevRun[1].out.stats.avgTicketsPerDay # lastRun[1].out.stats.avgTicketsPerDay
    /\ prevReq # None
    /\ filters.beforeDate # None
    /\ now = Clock[2]

\* C6 as stated: after any number of renders the array the dashboard was
\* given holds the same tickets in the same order.
C6_ListUnchanged == served => dashboardData = given

\* The analytics of no tickets.
EmptyAnalytics ==
    [ labelData |-> <<>>,
      timeline |-> <<>>,
      topReporters |-> <<>>,
      stats |-> [ totalTickets |-> 0,
                  uniqueReporters |-> 0,
                  mostCommonLabel |-> NoneLabel,
                  avgTicketsPerDay |-> 0 ] ]

\* C7: for an empty ticket list the analytics are all zero and empty, the
\* most common label is "None", and the dashboard renders without an error.
C7_EmptyList ==
    /\ (lastRun # None /\ lastRun[1].input = <<>>) => lastRun[1].out = EmptyAnalytics
    /\ (served /\ given = <<>>) => ~error

C7_Witness ==
    /\ mounted
    /\ given = <<>>
    /\ lastRun # None
    /\ lastRun[1].input = <<>>
    /\ analytics = Some(EmptyAnalytics)

\* C8 as stated: labelCounts lists the labels by count descending, labels of
\* equal count in the order they were first met in the tickets, whatever
\* the label strings look like.
C8_FirstSeenOrder ==
    lastRun # None =>
        lastRun[1].out.labelData =
            ByValueDescending(LabelCounts(<<>>, lastRun[1].input))

\* C10 as stated: a ticket list that holds a ticket with no labels field
\* never causes an error in the dashboard.
C10_NoError ==
    (served /\ \E i \in 1..Len(given) : given[i].labels = None) => ~error

-----------------------------------------------------------------------------
(* Properties of the leaderboard                                           *)

Emails(list) == { list[i].userEmail : i \in 1..Len(list) }

CountOf(list, e) == Cardinality({ i \in 1..Len(list) : list[i].userEmail = e })

FirstSeen(list, e) == CHOOSE i \in 1..Len(list) :
    /\ list[i].userEmail = e
    /\ \A j \in 1..(i - 1) : list[j].userEmail # e

\* C9: topReporters has min(10, distinct reporters) entries, each a reporter
\* with its ticket count, by count descending and ties in first-seen order;
\* no reporter left out has more tickets than one included; uniqueReporters
\* is the number of distinct reporters.
C9_TopReporters ==
    lastRun # None =>
        LET list == lastRun[1].input
            top == lastRun[1].out.topReporters
            n == Cardinality(Emails(list))
        IN  /\ Len(top) = IF n < TopN THEN n ELSE TopN
            /\ \A i \in 1..Len(top) :
                  /\ top[i].key \in Emails(list)
                  /\ top[i].value = CountOf(list, top[i].key)
            /\ \A i, j \in 1..Len(top) : i < j =>
                  \/ top[i].value > top[j].value
                  \/ /\ top[i].value = top[j].value
                     /\ FirstSeen(list, top[i].key) < FirstSeen(list, top[j].key)
            /\ \A e \in Emails(list) \ { top[i].key : i \in 1..Len(top) } :
                  \A i \in 1..Len(top) : CountOf(list, e) <= top[i].value
            /\ lastRun[1].out.stats.uniqueReporters = n

\* More than ten reporters, the eleventh of them with two tickets.
C9_Witness ==
    /\ lastRun # None
    /\ Cardinality(Emails(lastRun[1].input)) > TopN
    /\ Len(lastRun[1].out.topReporters) = TopN
    /\ lastRun[1].out.topReporters[1].key = ReporterEmail(TopN + 1)
    /\ lastRun[1].out.topReporters[1].value = 2

-----------------------------------------------------------------------------
(* Properties of the ticket list                                           *)

Ids(ids) == { ids[k] : k \in 1..Len(ids) }

\* C14 as stated: after any page changes, hides and restores, a click on
\* Hide of a displayed ticket takes it off the displayed list and raises
\* the number of hidden tickets by one, and no ticket is both displayed and
\* hidden.
C14_HideRemoves ==
    /\ lastHide # None =>
          /\ lastHide[1].id \notin Ids(TicketData)
          /\ Len(hiddenItems) = lastHide[1].hiddenBefore + 1
    /\ Ids(TicketData) \cap Ids(hiddenItems) = {}


=============================================================================
